---- MODULE Spec2Model ----
(***************************************************************************)
(* PeriodButton (src/unnamed/part_001): the selection reducer              *)
(* handlePeriodClick, the selection test isSelected, and the caller that   *)
(* binds the emitted values back into the props (v-model).                 *)
(***************************************************************************)
EXTENDS Integers, Sequences, FiniteSets, TLC

VARIABLES props, history, trace, actionButton, baseButton

vars == <<props, history, trace, actionButton, baseButton>>

(* ---------------------------------------------------------------------- *)
(* Bounds                                                                  *)
(* ---------------------------------------------------------------------- *)

\* how many of the declared period types take part
MaxIds == 2
\* longest `periods` prop the caller supplies
MaxPeriods == 2
\* longest initial `selectedPeriods` prop the caller supplies
MaxSelected == 2
\* how many clicks the event trace follows
MaxClicks == 2

(* ---------------------------------------------------------------------- *)
(* Identifiers                                                             *)
(* ---------------------------------------------------------------------- *)

\* the declared period types, in the order of the prop validators
PeriodTypeList == <<"day", "week", "month", "quarter", "year", "custom">>

ValidPeriods == {PeriodTypeList[k] : k \in 1..Len(PeriodTypeList)}

\* an identifier outside the declared set (validators only warn)
UnknownPeriod == "hour"

\* a modelValue of null: no identifier is selected
NoPeriod == "<null>"

\* the value undefined
Undefined == "<undefined>"

\* names every object literal inherits from Object.prototype
ObjectPrototypeKeys ==
    {"constructor", "toString", "valueOf", "hasOwnProperty", "isPrototypeOf",
     "propertyIsEnumerable", "toLocaleString", "__proto__"}

\* the inherited name that takes part
InheritedKey == "constructor"

Min(a, b) == IF a < b THEN a ELSE b

Ids == {PeriodTypeList[k] : k \in 1..Min(MaxIds, Len(PeriodTypeList))} \cup {UnknownPeriod}

SeqsUpTo(S, n) == UNION {[1..k -> S] : k \in 0..n}

\* the arrays without a repeated element: `periods` supplies the v-for keys
DistinctSeqsUpTo(S, n) ==
    {s \in SeqsUpTo(S, n) : \A j, k \in 1..Len(s) : s[j] = s[k] => j = k}

Variants == {"buttons", "tabs", "pills"}

Sizes == {"small", "medium", "large"}

(* ---------------------------------------------------------------------- *)
(* Array helpers, as JavaScript computes them                              *)
(* ---------------------------------------------------------------------- *)

\* Array.prototype.includes
Includes(arr, x) == \E k \in 1..Len(arr) : arr[k] = x

\* Array.prototype.indexOf, 0-based, -1 when absent
IndexOf(arr, x) ==
    IF Includes(arr, x)
    THEN (CHOOSE k \in 1..Len(arr) : arr[k] = x /\ \A j \in 1..(k - 1) : arr[j] # x) - 1
    ELSE -1

\* arr.splice(index, 1) on a copy: the array without the element at the 0-based index
Splice1(arr, index) ==
    [k \in 1..(Len(arr) - 1) |-> IF k <= index THEN arr[k] ELSE arr[k + 1]]

\* arr.push(x) on a copy
Push(arr, x) == Append(arr, x)

\* the set an array stands for
ToSet(arr) == {arr[k] : k \in 1..Len(arr)}

(* ---------------------------------------------------------------------- *)
(* PeriodButton                                                            *)
(* ---------------------------------------------------------------------- *)

\* the table of default period configurations; labels and descriptions are
\* written as their code points
defaultPeriods ==
    [period \in ValidPeriods |->
        CASE period = "day" ->
               [value |-> "day", label |-> "U+65E5", icon |-> "fas fa-calendar-day",
                description |-> "U+6309 U+65E5 U+67E5 U+770B"]
          [] period = "week" ->
               [value |-> "week", label |-> "U+9031", icon |-> "fas fa-calendar-week",
                description |-> "U+6309 U+9031 U+67E5 U+770B"]
          [] period = "month" ->
               [value |-> "month", label |-> "U+6708", icon |-> "fas fa-calendar-alt",
                description |-> "U+6309 U+6708 U+67E5 U+770B"]
          [] period = "quarter" ->
               [value |-> "quarter", label |-> "U+5B63", icon |-> "fas fa-calendar-plus",
                description |-> "U+6309 U+5B63 U+67E5 U+770B"]
          [] period = "year" ->
               [value |-> "year", label |-> "U+5E74", icon |-> "fas fa-calendar",
                description |-> "U+6309 U+5E74 U+67E5 U+770B"]
          [] period = "custom" ->
               [value |-> "custom", label |-> "U+81EA U+5B9A U+7FA9", icon |-> "fas fa-cog",
                description |-> "U+81EA U+5B9A U+7FA9 U+6642 U+9593 U+7BC4 U+570D"]]

\* defaultPeriods[period] || {value: period, label: period, icon: 'fas fa-clock'}
\* as the template reads it. The lookup follows the prototype chain: for a
\* name inherited from Object.prototype it yields that inherited member, which
\* is truthy and has no value, label or icon.
periodConfig(period) ==
    IF period \in ValidPeriods
    THEN defaultPeriods[period]
    ELSE IF period \in ObjectPrototypeKeys
         THEN [value |-> Undefined, label |-> Undefined, icon |-> Undefined]
         ELSE [value |-> period, label |-> period, icon |-> "fas fa-clock"]

\* the period configurations rendered, one per element of props.periods
availablePeriods(p) ==
    [k \in 1..Len(p.periods) |-> periodConfig(p.periods[k])]

isSelectedAnyMode(p, periodValue) ==
    Includes(p.selectedPeriods, periodValue) \/ p.modelValue = periodValue

isSelected(p, periodValue) ==
    IF p.allowMultiple
    THEN Includes(p.selectedPeriods, periodValue)
    ELSE p.modelValue = periodValue

\* getButtonType of PeriodButton: the type passed to the Button of a period
getButtonType(p, periodValue) ==
    LET selected == isSelected(p, periodValue)
    IN  IF p.variant = "tabs"
        THEN (IF selected THEN "primary" ELSE "secondary")
        ELSE (IF selected THEN "primary" ELSE "secondary")

getButtonClassesSelectedAnyMode(p, periodValue) ==
    {"period-button"}
    \cup (IF isSelectedAnyMode(p, periodValue) THEN {"period-button--selected"} ELSE {})
    \cup (CASE p.variant = "tabs" -> {"period-button--tabs"}
            [] p.variant = "pills" -> {"period-button--pills"}
            [] OTHER -> {"period-button--buttons"})

\* getButtonClasses of PeriodButton: the classes set to true
getButtonClasses(p, periodValue) ==
    LET selected == isSelected(p, periodValue)
        baseClasses == {"period-button"}
                       \cup (IF selected THEN {"period-button--selected"} ELSE {})
    IN  CASE p.variant = "tabs" -> baseClasses \cup {"period-button--tabs"}
          [] p.variant = "pills" -> baseClasses \cup {"period-button--pills"}
          [] OTHER -> baseClasses \cup {"period-button--buttons"}

toggleAlwaysPushes(selectedPeriods, periodValue) ==
    Push(selectedPeriods, periodValue)

toggleNeverRemoves(selectedPeriods, periodValue) ==
    IF IndexOf(selectedPeriods, periodValue) > -1
    THEN selectedPeriods
    ELSE Push(selectedPeriods, periodValue)

toggleReplace(selectedPeriods, periodValue) ==
    IF IndexOf(selectedPeriods, periodValue) > -1
    THEN Splice1(selectedPeriods, IndexOf(selectedPeriods, periodValue))
    ELSE <<periodValue>>

\* newSelectedPeriods: a copy of the prop with periodValue spliced out or pushed
toggleSelection(selectedPeriods, periodValue) ==
    LET index == IndexOf(selectedPeriods, periodValue)
    IN  IF index > -1
        THEN Splice1(selectedPeriods, index)
        ELSE Push(selectedPeriods, periodValue)

Event(name, payload) == [name |-> name, payload |-> payload]

multipleEmitsSkipRemoval(p, periodValue) ==
    IF Includes(p.selectedPeriods, periodValue)
    THEN <<Event("update:selectedPeriods", toggleSelection(p.selectedPeriods, periodValue))>>
    ELSE << Event("update:selectedPeriods", toggleSelection(p.selectedPeriods, periodValue)),
            Event("change", [type |-> "multiple",
                             selectedPeriods |-> toggleSelection(p.selectedPeriods, periodValue),
                             clickedPeriod |-> periodValue]) >>

\* the emissions of the multiple-selection branch
multipleEmits(p, periodValue) ==
    LET newSelectedPeriods == toggleSelection(p.selectedPeriods, periodValue)
    IN  << Event("update:selectedPeriods", newSelectedPeriods),
           Event("change", [type |-> "multiple",
                            selectedPeriods |-> newSelectedPeriods,
                            clickedPeriod |-> periodValue]) >>

singleEmitsChangeFirst(p, periodValue) ==
    IF p.modelValue # periodValue
    THEN << Event("change", [type |-> "single",
                             selectedPeriod |-> periodValue,
                             previousPeriod |-> p.modelValue]),
            Event("update:modelValue", periodValue) >>
    ELSE << >>

singleEmitsDeselect(p, periodValue) ==
    IF p.modelValue # periodValue
    THEN << Event("update:modelValue", periodValue),
            Event("change", [type |-> "single",
                             selectedPeriod |-> periodValue,
                             previousPeriod |-> p.modelValue]) >>
    ELSE << Event("update:modelValue", NoPeriod),
            Event("change", [type |-> "single",
                             selectedPeriod |-> NoPeriod,
                             previousPeriod |-> p.modelValue]) >>

singleEmitsAlways(p, periodValue) ==
    << Event("update:modelValue", periodValue),
       Event("change", [type |-> "single",
                        selectedPeriod |-> periodValue,
                        previousPeriod |-> p.modelValue]) >>

singleEmitsWrongPrevious(p, periodValue) ==
    IF p.modelValue # periodValue
    THEN << Event("update:modelValue", periodValue),
            Event("change", [type |-> "single",
                             selectedPeriod |-> periodValue,
                             previousPeriod |-> periodValue]) >>
    ELSE << >>

\* the emissions of the single-selection branch
singleEmits(p, periodValue) ==
    IF p.modelValue # periodValue
    THEN << Event("update:modelValue", periodValue),
            Event("change", [type |-> "single",
                             selectedPeriod |-> periodValue,
                             previousPeriod |-> p.modelValue]) >>
    ELSE << >>

handlePeriodClickIgnoresDisabled(p, periodValue) ==
    IF p.allowMultiple
    THEN multipleEmits(p, periodValue)
    ELSE singleEmits(p, periodValue)

handlePeriodClickBothUpdates(p, periodValue) ==
    IF p.disabled
    THEN << >>
    ELSE IF p.allowMultiple
         THEN <<Event("update:modelValue", periodValue)>> \o multipleEmits(p, periodValue)
         ELSE singleEmits(p, periodValue)

handlePeriodClickChangeOnly(p, periodValue) ==
    IF p.disabled
    THEN << >>
    ELSE IF p.allowMultiple
         THEN multipleEmits(p, periodValue)
         ELSE SelectSeq(singleEmits(p, periodValue), LAMBDA e : e.name = "change")

handlePeriodClickTabsSingle(p, periodValue) ==
    IF p.disabled
    THEN << >>
    ELSE IF p.allowMultiple /\ p.variant # "tabs"
         THEN multipleEmits(p, periodValue)
         ELSE singleEmits(p, periodValue)

handlePeriodClickValidates(p, periodValue) ==
    IF p.disabled \/ periodValue \notin ValidPeriods
    THEN << >>
    ELSE IF p.allowMultiple
         THEN multipleEmits(p, periodValue)
         ELSE singleEmits(p, periodValue)

\* the events handlePeriodClick emits, in order, for one click
handlePeriodClick(p, periodValue) ==
    IF p.disabled
    THEN << >>
    ELSE IF p.allowMultiple
         THEN multipleEmits(p, periodValue)
         ELSE singleEmits(p, periodValue)

propsAfterClickInPlace(p, periodValue) ==
    IF p.disabled \/ ~ p.allowMultiple
    THEN p
    ELSE [p EXCEPT !.selectedPeriods = toggleSelection(p.selectedPeriods, periodValue)]

\* the props as handlePeriodClick leaves them: the handler works on a copy of
\* props.selectedPeriods and assigns to no prop
propsAfterClick(p, periodValue) == p

(* ---------------------------------------------------------------------- *)
(* The caller: v-model / v-model:selectedPeriods                           *)
(* ---------------------------------------------------------------------- *)

\* one emitted event as the caller's binding applies it to the props; a
\* modelValue of undefined takes the prop's default
applyEvent(p, e) ==
    IF e.name = "update:modelValue"
    THEN [p EXCEPT !.modelValue = IF e.payload = Undefined THEN "month" ELSE e.payload]
    ELSE IF e.name = "update:selectedPeriods"
         THEN [p EXCEPT !.selectedPeriods = e.payload]
         ELSE p

RECURSIVE applyEvents(_, _)
applyEvents(p, events) ==
    IF events = << >>
    THEN p
    ELSE applyEvents(applyEvent(p, Head(events)), Tail(events))

(* ---------------------------------------------------------------------- *)
(* State machine                                                           *)
(* ---------------------------------------------------------------------- *)

\* the state while no ActionButton is on the page
NoActionButton == [mounted |-> FALSE]

\* the state while no Button is on the page by itself
NoBaseButton == [mounted |-> FALSE]

(* ---------------------------------------------------------------------- *)
(* PeriodButton alone                                                      *)
(* ---------------------------------------------------------------------- *)

Init ==
    /\ \E mv \in Ids \cup {NoPeriod},
          ps \in DistinctSeqsUpTo(Ids, MaxPeriods),
          sel \in SeqsUpTo(Ids, MaxSelected),
          dis \in BOOLEAN,
          multi \in BOOLEAN :
            props = [modelValue |-> mv,
                     periods |-> ps,
                     size |-> "medium",
                     disabled |-> dis,
                     variant |-> "buttons",
                     allowMultiple |-> multi,
                     selectedPeriods |-> sel]
    /\ history = << >>
    /\ trace = << >>
    /\ baseButton = NoBaseButton
    /\ actionButton = NoActionButton

\* a click on the k-th rendered button runs handlePeriodClick(period.value)
Click(k) ==
    LET periodValue == availablePeriods(props)[k].value
    IN  /\ history' = << [period |-> periodValue,
                           before |-> props,
                           events |-> handlePeriodClick(props, periodValue),
                           fed |-> FALSE] >>
        /\ props' = propsAfterClick(props, periodValue)

\* the caller's binding writes the emitted values back into the props
Feedback ==
    /\ history # << >>
    /\ ~ history[Len(history)].fed
    /\ history[Len(history)].events # << >>
    /\ props' = applyEvents(props, history[Len(history)].events)
    /\ history' = [history EXCEPT ![Len(history)].fed = TRUE]

Next ==
    \/ \E k \in 1..Len(props.periods) : Click(k) /\ UNCHANGED <<trace, actionButton, baseButton>>
    \/ Feedback /\ UNCHANGED <<trace, actionButton, baseButton>>

Spec == Init /\ [][Next]_vars

(* ---------------------------------------------------------------------- *)
(* Every display variant and size, and the default periods                 *)
(* ---------------------------------------------------------------------- *)

\* the default of the `periods` prop
DefaultPeriods == <<"day", "week", "month", "quarter", "year">>

\* the component mounted with any variant, size and mode, the default or a
\* supplied list of periods (of declared, undeclared or inherited names), and
\* the default modelValue and selectedPeriods
InitRender ==
    /\ \E ps \in DistinctSeqsUpTo(Ids \cup {InheritedKey}, MaxPeriods) \cup {DefaultPeriods},
          v \in Variants,
          z \in Sizes,
          dis \in BOOLEAN,
          multi \in BOOLEAN :
            props = [modelValue |-> "month",
                     periods |-> ps,
                     size |-> z,
                     disabled |-> dis,
                     variant |-> v,
                     allowMultiple |-> multi,
                     selectedPeriods |-> << >>]
    /\ history = << >>
    /\ trace = << >>
    /\ baseButton = NoBaseButton
    /\ actionButton = NoActionButton

SpecRender == InitRender /\ [][Next]_vars

\* a variant outside the validator's list (the validator only warns)
UnknownVariant == "chips"

\* the component mounted with any variant, an undeclared one included, any
\* mode, and the default modelValue and selectedPeriods
InitVariants ==
    /\ \E ps \in DistinctSeqsUpTo(Ids \cup {"month"}, MaxPeriods),
          v \in Variants \cup {UnknownVariant},
          dis \in BOOLEAN,
          multi \in BOOLEAN :
            props = [modelValue |-> "month",
                     periods |-> ps,
                     size |-> "medium",
                     disabled |-> dis,
                     variant |-> v,
                     allowMultiple |-> multi,
                     selectedPeriods |-> << >>]
    /\ history = << >>
    /\ trace = << >>
    /\ baseButton = NoBaseButton
    /\ actionButton = NoActionButton

SpecVariants == InitVariants /\ [][Next]_vars

(* ---------------------------------------------------------------------- *)
(* The trace of emitted events                                             *)
(* ---------------------------------------------------------------------- *)

\* the component mounted with the default modelValue and selectedPeriods
InitTrace ==
    /\ \E ps \in DistinctSeqsUpTo(Ids, MaxPeriods),
          dis \in BOOLEAN,
          multi \in BOOLEAN :
            props = [modelValue |-> "month",
                     periods |-> ps,
                     size |-> "medium",
                     disabled |-> dis,
                     variant |-> "buttons",
                     allowMultiple |-> multi,
                     selectedPeriods |-> << >>]
    /\ history = << >>
    /\ trace = << >>
    /\ baseButton = NoBaseButton
    /\ actionButton = NoActionButton

\* the number of the click about to be handled
NextClickNo(tr) == IF tr = << >> THEN 1 ELSE tr[Len(tr)].click + 1

dispatchDeferred(tr, p, periodValue, events) ==
    LET new == [k \in 1..Len(events) |->
                  [click |-> NextClickNo(tr), period |-> periodValue,
                   before |-> p, event |-> events[k]]]
    IN  IF tr # << >> /\ new # << >>
        THEN SubSeq(tr, 1, Len(tr) - 1) \o <<new[1]>> \o <<tr[Len(tr)]>> \o Tail(new)
        ELSE tr \o new

\* the emit calls of one click run one after the other, synchronously, before
\* the handler returns: its events enter the trace together
dispatch(tr, p, periodValue, events) ==
    tr \o [k \in 1..Len(events) |->
             [click |-> NextClickNo(tr), period |-> periodValue,
              before |-> p, event |-> events[k]]]

ClickTraced(k) ==
    /\ NextClickNo(trace) <= MaxClicks
    /\ Click(k)
    /\ UNCHANGED <<actionButton, baseButton>>
    /\ trace' = dispatch(trace, props, availablePeriods(props)[k].value,
                         handlePeriodClick(props, availablePeriods(props)[k].value))

NextTrace ==
    \/ \E k \in 1..Len(props.periods) : ClickTraced(k)
    \/ Feedback /\ UNCHANGED <<trace, actionButton, baseButton>>

SpecTrace == InitTrace /\ [][NextTrace]_vars

\* the enabled component mounted in multiple mode with any duplicate-free
\* selectedPeriods, or in single mode with any modelValue
InitSequence ==
    /\ \E ps \in DistinctSeqsUpTo(Ids, MaxPeriods),
          sel \in DistinctSeqsUpTo(Ids, MaxSelected),
          mv \in Ids \cup {NoPeriod},
          multi \in BOOLEAN :
            /\ multi => mv = NoPeriod
            /\ ~ multi => sel = << >>
            /\ props = [modelValue |-> mv,
                        periods |-> ps,
                        size |-> "medium",
                        disabled |-> FALSE,
                        variant |-> "buttons",
                        allowMultiple |-> multi,
                        selectedPeriods |-> sel]
    /\ history = << >>
    /\ trace = << >>
    /\ baseButton = NoBaseButton
    /\ actionButton = NoActionButton

\* sequences of clicks, each bound back by the caller or not
SpecSequence == InitSequence /\ [][NextTrace]_vars

(* ---------------------------------------------------------------------- *)
(* ActionButton (src/unnamed/part_003)                                     *)
(* ---------------------------------------------------------------------- *)

\* ButtonTypeValidator.availableTypes
ButtonTypes == {"primary", "secondary", "danger", "success", "warning"}

\* the keys of ActionTypeMapper.actionTypeMap
ActionTypes == {"submit", "delete", "save", "cancel", "confirm", "default"}

\* an action outside the map
UnknownAction == "archive"

\* what reading a name inherited from Object.prototype yields
InheritedMember == "<Object.prototype member>"

actionTypeMap ==
    [action \in ActionTypes |->
        CASE action = "submit" -> "primary"
          [] action = "delete" -> "danger"
          [] action = "save" -> "success"
          [] action = "cancel" -> "secondary"
          [] action = "confirm" -> "primary"
          [] action = "default" -> "secondary"]

\* ActionTypeMapper.getButtonType: actionTypeMap[action] || fallbackType, the
\* lookup following the prototype chain of the map
mapperGetButtonType(action, fallbackType) ==
    IF action \in ActionTypes
    THEN actionTypeMap[action]
    ELSE IF action \in ObjectPrototypeKeys
         THEN InheritedMember
         ELSE fallbackType

\* the computed buttonType of ActionButton
buttonType(ap) ==
    IF ap.primary
    THEN "primary"
    ELSE mapperGetButtonType(ap.action, ap.type)

\* the props ActionButton passes to the Button it renders
actionButtonRender(ap) ==
    [type |-> buttonType(ap), disabled |-> (ap.disabled \/ ap.loading)]

handleActionWhileLoading(ap, event, timestamp) ==
    IF ~ ap.disabled
    THEN << Event("action", [action |-> ap.action, event |-> event, timestamp |-> timestamp]),
            Event("click", event) >>
    ELSE << >>

\* the events handleAction emits for one click
handleAction(ap, event, timestamp) ==
    IF ~ ap.loading /\ ~ ap.disabled
    THEN << Event("action", [action |-> ap.action, event |-> event, timestamp |-> timestamp]),
            Event("click", event) >>
    ELSE << >>

\* the DOM events and the clock readings that take part
DomEvents == {"click#1", "click#2"}

Timestamps == {"T1", "T2"}

InitAction ==
    /\ props = [modelValue |-> "month",
                periods |-> DefaultPeriods,
                size |-> "medium",
                disabled |-> FALSE,
                variant |-> "buttons",
                allowMultiple |-> FALSE,
                selectedPeriods |-> << >>]
    /\ history = << >>
    /\ trace = << >>
    /\ baseButton = NoBaseButton
    /\ \E action \in ActionTypes \cup {UnknownAction, InheritedKey},
          type \in ButtonTypes,
          primary \in BOOLEAN,
          loading \in BOOLEAN,
          disabled \in BOOLEAN :
            actionButton = [mounted |-> TRUE,
                            props |-> [action |-> action, type |-> type, primary |-> primary,
                                       loading |-> loading, disabled |-> disabled],
                            button |-> [type |-> Undefined, disabled |-> FALSE],
                            rendered |-> FALSE,
                            event |-> Undefined,
                            emitted |-> << >>]

\* the template is rendered: the Button receives the computed props
RenderActionButton ==
    /\ actionButton.mounted
    /\ ~ actionButton.rendered
    /\ actionButton' = [actionButton EXCEPT !.button = actionButtonRender(actionButton.props),
                                            !.rendered = TRUE]
    /\ UNCHANGED <<props, history, trace, baseButton>>

\* handleAction runs for a click
HandleAction(event, timestamp) ==
    /\ actionButton.mounted
    /\ actionButton.rendered
    /\ actionButton' = [actionButton EXCEPT
                          !.event = event,
                          !.emitted = handleAction(actionButton.props, event, timestamp)]
    /\ UNCHANGED <<props, history, trace, baseButton>>

NextAction ==
    \/ RenderActionButton
    \/ \E event \in DomEvents, timestamp \in Timestamps : HandleAction(event, timestamp)

SpecAction == InitAction /\ [][NextAction]_vars

(* ---------------------------------------------------------------------- *)
(* The caller sets the selection props directly (the stories' controls)    *)
(* ---------------------------------------------------------------------- *)

\* the options of the modelValue select control
ControlOptions == ValidPeriods \cap (Ids \cup {"month"})

\* the caller sets modelValue. An emission is bound synchronously or never,
\* so no emission of an earlier click is still to be bound afterwards.
ControlModelValue(v) ==
    /\ props.modelValue # v
    /\ props' = [props EXCEPT !.modelValue = v]
    /\ history' = << >>
    /\ UNCHANGED <<trace, actionButton, baseButton>>

\* the caller sets selectedPeriods to an empty or a one-element array
ControlSelectedPeriods(a) ==
    /\ props.selectedPeriods # a
    /\ props' = [props EXCEPT !.selectedPeriods = a]
    /\ history' = << >>
    /\ UNCHANGED <<trace, actionButton, baseButton>>

NextControls ==
    \/ \E k \in 1..Len(props.periods) : Click(k) /\ UNCHANGED <<trace, actionButton, baseButton>>
    \/ Feedback /\ UNCHANGED <<trace, actionButton, baseButton>>
    \/ \E v \in ControlOptions : ControlModelValue(v)
    \/ \E a \in SeqsUpTo(Ids, 1) : ControlSelectedPeriods(a)

SpecControls == InitTrace /\ [][NextControls]_vars

(* ---------------------------------------------------------------------- *)
(* The base Button under PeriodButton (src/unnamed/part_002)               *)
(* ---------------------------------------------------------------------- *)

buttonHandleClickAlways(bp, event) == <<Event("click", event)>>

\* the events Button's handleClick emits for one click
buttonHandleClick(bp, event) ==
    IF ~ bp.disabled
    THEN <<Event("click", event)>>
    ELSE << >>

\* the props PeriodButton passes to the Button of a period
periodButtonRender(p, periodValue) ==
    [type |-> getButtonType(p, periodValue), size |-> p.size, disabled |-> p.disabled]

\* a click on the k-th rendered Button: handleClick runs, and the click it
\* emits, if any, runs the listener handlePeriodClick(period.value)
ButtonClick(k, event) ==
    LET periodValue == availablePeriods(props)[k].value
        emitted == buttonHandleClick(periodButtonRender(props, periodValue), event)
    IN  /\ history' = << [period |-> periodValue,
                           before |-> props,
                           events |-> IF emitted # << >>
                                      THEN handlePeriodClick(props, periodValue)
                                      ELSE << >>,
                           fed |-> FALSE,
                           domEvent |-> event,
                           button |-> emitted,
                           reached |-> (emitted # << >>)] >>
        /\ props' = IF emitted # << >> THEN propsAfterClick(props, periodValue) ELSE props
        /\ UNCHANGED <<trace, actionButton, baseButton>>

NextButton ==
    \/ \E k \in 1..Len(props.periods), event \in DomEvents : ButtonClick(k, event)
    \/ Feedback /\ UNCHANGED <<trace, actionButton, baseButton>>

SpecButton == InitTrace /\ [][NextButton]_vars

(* ---------------------------------------------------------------------- *)
(* The base Button by itself (src/unnamed/part_002)                        *)
(* ---------------------------------------------------------------------- *)

\* what calling a member that is not a function throws
TypeError == "<TypeError>"

\* a type outside ButtonTypeValidator.availableTypes (the validator only warns)
UnknownType == "info"

\* a custom background colour
CustomBackground == "#ff0000"

\* ColorManager.colorSchemes
colorSchemes ==
    [type \in ButtonTypes |->
        CASE type = "primary" ->
               [background |-> "#1ea7fd", text |-> "#ffffff", border |-> "#1ea7fd",
                hoverBackground |-> "#0d8ce0", hoverText |-> "#ffffff", hoverBorder |-> "#0d8ce0",
                disabledBackground |-> "#b3d9f2", disabledText |-> "#ffffff",
                disabledBorder |-> "#b3d9f2"]
          [] type = "secondary" ->
               [background |-> "transparent", text |-> "#333333", border |-> "#333333",
                hoverBackground |-> "#f5f5f5", hoverText |-> "#333333", hoverBorder |-> "#333333",
                disabledBackground |-> "transparent", disabledText |-> "#999999",
                disabledBorder |-> "#cccccc"]
          [] type = "danger" ->
               [background |-> "#dc3545", text |-> "#ffffff", border |-> "#dc3545",
                hoverBackground |-> "#c82333", hoverText |-> "#ffffff", hoverBorder |-> "#c82333",
                disabledBackground |-> "#f5c6cb", disabledText |-> "#ffffff",
                disabledBorder |-> "#f5c6cb"]
          [] type = "success" ->
               [background |-> "#28a745", text |-> "#ffffff", border |-> "#28a745",
                hoverBackground |-> "#218838", hoverText |-> "#ffffff", hoverBorder |-> "#218838",
                disabledBackground |-> "#c3e6cb", disabledText |-> "#ffffff",
                disabledBorder |-> "#c3e6cb"]
          [] type = "warning" ->
               [background |-> "#ffc107", text |-> "#212529", border |-> "#ffc107",
                hoverBackground |-> "#e0a800", hoverText |-> "#212529", hoverBorder |-> "#e0a800",
                disabledBackground |-> "#ffeaa7", disabledText |-> "#6c757d",
                disabledBorder |-> "#ffeaa7"]]

\* ColorManager.getColorScheme: colorSchemes[type] || colorSchemes.secondary,
\* the lookup following the prototype chain; an inherited member has none of
\* the scheme's fields
getColorScheme(type) ==
    IF type \in ButtonTypes
    THEN colorSchemes[type]
    ELSE IF type \in ObjectPrototypeKeys
         THEN [f \in DOMAIN colorSchemes["secondary"] |-> Undefined]
         ELSE colorSchemes["secondary"]

\* a || b on strings
OrElse(a, b) == IF a # "" /\ a # Undefined THEN a ELSE b

getColorsNoCustomWhenDisabled(type, disabled, customBackground) ==
    LET scheme == getColorScheme(type)
    IN  IF disabled
        THEN [backgroundColor |-> scheme.disabledBackground,
              color |-> scheme.disabledText,
              border |-> <<"1px solid", scheme.disabledBorder>>]
        ELSE [backgroundColor |-> OrElse(customBackground, scheme.background),
              color |-> scheme.text,
              border |-> <<"1px solid", scheme.border>>]

\* ColorManager.getColors; the border `1px solid ${c}` is the pair <<"1px solid", c>>
getColors(type, disabled, customBackground) ==
    LET scheme == getColorScheme(type)
    IN  IF disabled
        THEN [backgroundColor |-> OrElse(customBackground, scheme.disabledBackground),
              color |-> scheme.disabledText,
              border |-> <<"1px solid", scheme.disabledBorder>>]
        ELSE [backgroundColor |-> OrElse(customBackground, scheme.background),
              color |-> scheme.text,
              border |-> <<"1px solid", scheme.border>>]

\* ButtonSizeMapper.sizeMap
sizeMap ==
    [size \in Sizes |->
        CASE size = "small" ->
               [padding |-> "8px 16px", fontSize |-> "12px", minHeight |-> "32px",
                iconSize |-> "12px", gap |-> "6px"]
          [] size = "medium" ->
               [padding |-> "12px 24px", fontSize |-> "14px", minHeight |-> "40px",
                iconSize |-> "14px", gap |-> "8px"]
          [] size = "large" ->
               [padding |-> "16px 32px", fontSize |-> "16px", minHeight |-> "48px",
                iconSize |-> "16px", gap |-> "10px"]]

\* ButtonSizeMapper.getDimensions: sizeMap[size] || sizeMap.medium
getDimensions(size) ==
    IF size \in Sizes
    THEN sizeMap[size]
    ELSE IF size \in ObjectPrototypeKeys
         THEN [f \in DOMAIN sizeMap["medium"] |-> Undefined]
         ELSE sizeMap["medium"]

\* ButtonVariantFactory.strategyMap
strategyMap ==
    [type \in ButtonTypes |->
        CASE type = "primary" -> "PrimaryButtonStrategy"
          [] type = "secondary" -> "SecondaryButtonStrategy"
          [] type = "danger" -> "DangerButtonStrategy"
          [] type = "success" -> "SuccessButtonStrategy"
          [] type = "warning" -> "WarningButtonStrategy"]

Strategies == {strategyMap[type] : type \in ButtonTypes}

\* the type each strategy class writes into its class name and colours
strategyType(strategy) == CHOOSE type \in ButtonTypes : strategyMap[type] = strategy

\* ButtonVariantFactory.createStrategy: new (strategyMap[type] ||
\* SecondaryButtonStrategy)(); for the inherited name `constructor` the
\* lookup yields Object, and new Object() is an object without getClasses
\* and getStyles
createStrategy(type) ==
    IF type \in ButtonTypes
    THEN strategyMap[type]
    ELSE IF type \in ObjectPrototypeKeys
         THEN "Object"
         ELSE "SecondaryButtonStrategy"

\* getButtonType of Button
buttonGetButtonType(bp) ==
    IF bp.primary
    THEN "primary"
    ELSE OrElse(bp.type, "secondary")

createButtonStrategy(bp) == createStrategy(buttonGetButtonType(bp))

\* ButtonIconManager.getIconClasses (no icon slot is filled): the classes set to true
getIconClasses(bp) ==
    {c \in {"button--with-icons", "button--left-icon", "button--right-icon"} :
        \/ c = "button--with-icons" /\ (bp.leftIcon # "" \/ bp.rightIcon # "")
        \/ c = "button--left-icon" /\ bp.leftIcon # ""
        \/ c = "button--right-icon" /\ bp.rightIcon # ""}

\* the names of the style properties getStyles sets
StyleProperties ==
    {"backgroundColor", "color", "border", "padding", "fontSize", "minHeight",
     "display", "alignItems", "gap"}

\* buttonClasses and buttonStyles while none has been produced
NoClasses == {}

NoStyles == [f \in StyleProperties |-> Undefined]

\* what evaluating the computed properties throws, if anything: an object
\* without getClasses and getStyles makes the call a TypeError
renderError(strategy) == IF strategy \notin Strategies THEN TypeError ELSE ""

\* getClasses of the strategy: the classes set to true; the class
\* `storybook-button--${x}` is the pair <<"storybook-button--", x>>
getClasses(strategy, bp) ==
    IF strategy \notin Strategies
    THEN NoClasses
    ELSE {<<"storybook-button">>,
          <<"storybook-button--", strategyType(strategy)>>,
          <<"storybook-button--", OrElse(bp.size, "medium")>>}
         \cup {<<c>> : c \in getIconClasses(bp)}

\* getStyles of the strategy
getStyles(strategy, bp) ==
    IF strategy \notin Strategies
    THEN NoStyles
    ELSE LET dimensions == getDimensions(OrElse(bp.size, "medium"))
             colors == getColors(strategyType(strategy), bp.disabled, bp.backgroundColor)
         IN  [backgroundColor |-> colors.backgroundColor,
              color |-> colors.color,
              border |-> colors.border,
              padding |-> dimensions.padding,
              fontSize |-> dimensions.fontSize,
              minHeight |-> dimensions.minHeight,
              display |-> "flex",
              alignItems |-> "center",
              gap |-> dimensions.gap]

\* a Button mounted by itself with any type (declared, empty, undeclared or
\* inherited), size, state and background
InitBase ==
    /\ props = [modelValue |-> "month",
                periods |-> DefaultPeriods,
                size |-> "medium",
                disabled |-> FALSE,
                variant |-> "buttons",
                allowMultiple |-> FALSE,
                selectedPeriods |-> << >>]
    /\ history = << >>
    /\ trace = << >>
    /\ actionButton = NoActionButton
    /\ \E type \in ButtonTypes \cup {"", UnknownType, InheritedKey},
          primary \in BOOLEAN,
          size \in Sizes,
          disabled \in BOOLEAN,
          backgroundColor \in {"", CustomBackground} :
            baseButton = [mounted |-> TRUE,
                          props |-> [type |-> type, primary |-> primary, size |-> size,
                                     disabled |-> disabled, backgroundColor |-> backgroundColor,
                                     leftIcon |-> "", rightIcon |-> ""],
                          rendered |-> FALSE,
                          strategy |-> Undefined,
                          classes |-> NoClasses,
                          styles |-> NoStyles,
                          error |-> "",
                          event |-> Undefined,
                          emitted |-> << >>,
                          colorCall |-> [made |-> FALSE]]

\* the template is rendered: buttonStrategy, buttonClasses and buttonStyles are computed
RenderBaseButton ==
    /\ baseButton.mounted
    /\ ~ baseButton.rendered
    /\ baseButton' = [baseButton EXCEPT
                        !.rendered = TRUE,
                        !.strategy = createButtonStrategy(baseButton.props),
                        !.classes = getClasses(createButtonStrategy(baseButton.props), baseButton.props),
                        !.styles = getStyles(createButtonStrategy(baseButton.props), baseButton.props),
                        !.error = renderError(createButtonStrategy(baseButton.props))]
    /\ UNCHANGED <<props, history, trace, actionButton>>

\* handleClick runs for a click on the rendered button
BaseButtonClick(event) ==
    /\ baseButton.mounted
    /\ baseButton.rendered
    /\ baseButton.error = ""
    /\ baseButton' = [baseButton EXCEPT
                        !.event = event,
                        !.emitted = buttonHandleClick(baseButton.props, event)]
    /\ UNCHANGED <<props, history, trace, actionButton>>

\* ColorManager.getColors is called. The class is private to the module and
\* its callers, the strategies, pass the literal of a declared type; the
\* undeclared and the empty type stand for a type without a colour scheme.
GetColors(type, disabled, customBackground) ==
    /\ baseButton.mounted
    /\ baseButton' = [baseButton EXCEPT
                        !.colorCall = [made |-> TRUE, type |-> type, disabled |-> disabled,
                                       customBackground |-> customBackground,
                                       colors |-> getColors(type, disabled, customBackground)]]
    /\ UNCHANGED <<props, history, trace, actionButton>>

NextBase ==
    \/ RenderBaseButton
    \/ \E event \in DomEvents : BaseButtonClick(event)
    \/ \E type \in ButtonTypes \cup {UnknownType, ""},
          disabled \in BOOLEAN,
          customBackground \in {"", CustomBackground} :
            GetColors(type, disabled, customBackground)

SpecBase == InitBase /\ [][NextBase]_vars

(* ---------------------------------------------------------------------- *)
(* Reading the click records                                               *)
(* ---------------------------------------------------------------------- *)

\* history holds the click handled last, if any
Clicks == {history[k] : k \in 1..Len(history)}

LastClick == history[Len(history)]

Named(events, name) == SelectSeq(events, LAMBDA e : e.name = name)

Emits(r, name) == Named(r.events, name) # << >>

\* a click handled with the component enabled, in the given mode
Enabled1(r, multi) == ~ r.before.disabled /\ r.before.allowMultiple = multi

(* ---------------------------------------------------------------------- *)
(* Properties                                                              *)
(* ---------------------------------------------------------------------- *)

\* C1: when `disabled` is true a click emits none of update:modelValue,
\* update:selectedPeriods, change, and modelValue and selectedPeriods stay
\* as they were before the click.
C1_DisabledSuppression ==
    /\ \A r \in Clicks : r.before.disabled => r.events = << >>
    /\ (history # << >> /\ LastClick.before.disabled) =>
         /\ props.modelValue = LastClick.before.modelValue
         /\ props.selectedPeriods = LastClick.before.selectedPeriods

C1_Witness ==
    \E r \in Clicks :
        /\ r.before.disabled
        /\ \/ r.before.allowMultiple
           \/ r.period # r.before.modelValue

\* C2: in single mode, enabled, a click on the identifier that already is
\* modelValue emits no event and the selection stays that identifier.
C2_SingleIdempotence ==
    /\ \A r \in Clicks :
         (Enabled1(r, FALSE) /\ r.period = r.before.modelValue) => r.events = << >>
    /\ (history # << >> /\ Enabled1(LastClick, FALSE)
          /\ LastClick.period = LastClick.before.modelValue) =>
         props.modelValue = LastClick.period

C2_Witness ==
    \E r \in Clicks : Enabled1(r, FALSE) /\ r.period = r.before.modelValue

\* C3: in single mode, enabled, a click on i while modelValue is c # i emits
\* update:modelValue with i and a change descriptor
\* {type: single, selectedPeriod: i, previousPeriod: c}; once the caller has
\* bound the value back, modelValue is i.
C3_SingleChange ==
    /\ \A r \in Clicks :
         (Enabled1(r, FALSE) /\ r.period # r.before.modelValue) =>
           /\ \E k \in 1..Len(r.events) :
                /\ r.events[k].name = "update:modelValue"
                /\ r.events[k].payload = r.period
           /\ \E k \in 1..Len(r.events) :
                /\ r.events[k].name = "change"
                /\ r.events[k].payload = [type |-> "single",
                                          selectedPeriod |-> r.period,
                                          previousPeriod |-> r.before.modelValue]
           /\ applyEvents(r.before, r.events).modelValue = r.period
    /\ (history # << >> /\ Enabled1(LastClick, FALSE) /\ LastClick.fed) =>
         props.modelValue = LastClick.period

C3_Witness ==
    /\ history # << >>
    /\ Enabled1(LastClick, FALSE)
    /\ LastClick.fed
    /\ LastClick.before.modelValue \in Ids
    /\ LastClick.period # LastClick.before.modelValue
    /\ props.modelValue = LastClick.period

\* the selection a multiple-mode click emits in update:selectedPeriods
EmittedSelection(r) == Named(r.events, "update:selectedPeriods")[1].payload

\* C4: in multiple mode, enabled, a click on a member i of the selection S
\* emits S \ {i}: i is no longer a member, every other member still is.
C4_MultipleRemoval ==
    \A r \in Clicks :
        (Enabled1(r, TRUE) /\ Includes(r.before.selectedPeriods, r.period)) =>
          /\ Emits(r, "update:selectedPeriods")
          /\ ToSet(EmittedSelection(r)) = ToSet(r.before.selectedPeriods) \ {r.period}

\* C5: in multiple mode, enabled, a click on an identifier i outside the
\* selection S emits S \cup {i}.
C5_MultipleAddition ==
    \A r \in Clicks :
        (Enabled1(r, TRUE) /\ ~ Includes(r.before.selectedPeriods, r.period)) =>
          /\ Emits(r, "update:selectedPeriods")
          /\ ToSet(EmittedSelection(r)) = ToSet(r.before.selectedPeriods) \cup {r.period}

C5_Witness ==
    \E r \in Clicks :
        /\ Enabled1(r, TRUE)
        /\ r.before.selectedPeriods # << >>
        /\ ~ Includes(r.before.selectedPeriods, r.period)
        /\ Len(EmittedSelection(r)) = Len(r.before.selectedPeriods) + 1

\* C6: in multiple mode, enabled, every click emits one change descriptor
\* {type: multiple, selectedPeriods: the emitted selection, clickedPeriod:
\* the clicked identifier}, whether it adds or removes.
C6_MultipleAlwaysEmits ==
    \A r \in Clicks :
        Enabled1(r, TRUE) =>
          /\ Emits(r, "update:selectedPeriods")
          /\ Len(Named(r.events, "change")) = 1
          /\ Named(r.events, "change")[1].payload =
               [type |-> "multiple",
                selectedPeriods |-> EmittedSelection(r),
                clickedPeriod |-> r.period]

C6_Witness ==
    /\ history # << >>
    /\ Enabled1(LastClick, TRUE)
    /\ Includes(LastClick.before.selectedPeriods, LastClick.period)
    /\ Emits(LastClick, "change")
    /\ LastClick.fed

\* a click in multiple mode on the identifier of the click before it, whose
\* emitted selection the caller has bound back
SecondClickInARow ==
    /\ history # << >>
    /\ history' # history
    /\ ~ history'[1].fed
    /\ Enabled1(LastClick, TRUE)
    /\ LastClick.fed
    /\ history'[1].period = LastClick.period
    /\ history'[1].before.selectedPeriods = EmittedSelection(LastClick)

\* C7: in multiple mode with the caller binding the emitted selection back,
\* two clicks in a row on the same identifier return the selection set to
\* what it was, and both clicks emit.
C7_ToggleInverse ==
    [][SecondClickInARow =>
         /\ Emits(LastClick, "change")
         /\ Emits(history'[1], "change")
         /\ ToSet(EmittedSelection(history'[1])) = ToSet(LastClick.before.selectedPeriods)]_vars

\* C8: a single-mode click emits no update:selectedPeriods and leaves the
\* selectedPeriods set alone; a multiple-mode click emits no
\* update:modelValue and leaves modelValue alone.
C8_ModeIsolation ==
    /\ \A r \in Clicks :
         /\ ~ r.before.allowMultiple =>
              /\ ~ Emits(r, "update:selectedPeriods")
              /\ applyEvents(r.before, r.events).selectedPeriods = r.before.selectedPeriods
         /\ r.before.allowMultiple =>
              /\ ~ Emits(r, "update:modelValue")
              /\ applyEvents(r.before, r.events).modelValue = r.before.modelValue
    /\ history # << >> =>
         /\ ~ LastClick.before.allowMultiple =>
              props.selectedPeriods = LastClick.before.selectedPeriods
         /\ LastClick.before.allowMultiple =>
              props.modelValue = LastClick.before.modelValue

C8_Witness ==
    /\ history # << >>
    /\ Enabled1(LastClick, TRUE)
    /\ LastClick.fed
    /\ LastClick.period # LastClick.before.modelValue
    /\ props.selectedPeriods # LastClick.before.selectedPeriods

\* C9: in single mode, in every reachable state, isSelected reports at most
\* one identifier as selected, whatever selectedPeriods holds.
C9_SingleAtMostOne ==
    ~ props.allowMultiple =>
        Cardinality({i \in Ids \cup {NoPeriod} : isSelected(props, i)}) <= 1

C9_Witness ==
    /\ ~ props.allowMultiple
    /\ history # << >>
    /\ LastClick.fed
    /\ props.selectedPeriods # << >>
    /\ ~ Includes(props.selectedPeriods, props.modelValue)
    /\ isSelected(props, props.modelValue)

\* C10: every change descriptor comes, in the same click, with exactly one
\* value update of the matching mode carrying the same value, and no value
\* update comes without a change descriptor.
C10_ChangeWithUpdate ==
    \A r \in Clicks :
        LET changes == Named(r.events, "change")
            single == Named(r.events, "update:modelValue")
            multiple == Named(r.events, "update:selectedPeriods")
        IN  /\ \A k \in 1..Len(changes) :
                 IF changes[k].payload.type = "single"
                 THEN /\ Len(single) = 1
                      /\ multiple = << >>
                      /\ single[1].payload = changes[k].payload.selectedPeriod
                 ELSE /\ Len(multiple) = 1
                      /\ single = << >>
                      /\ multiple[1].payload = changes[k].payload.selectedPeriods
            /\ (single # << >> \/ multiple # << >>) => Len(changes) = 1

C10_Witness ==
    /\ history # << >>
    /\ Emits(LastClick, "change")
    /\ LastClick.fed

\* the identifiers u and v exchanged, in an identifier, an array, the props
\* and the emitted events
SwapId(x, u, v) == IF x = u THEN v ELSE IF x = v THEN u ELSE x

SwapArr(arr, u, v) == [k \in 1..Len(arr) |-> SwapId(arr[k], u, v)]

SwapProps(p, u, v) ==
    [p EXCEPT !.modelValue = SwapId(p.modelValue, u, v),
              !.selectedPeriods = SwapArr(p.selectedPeriods, u, v),
              !.periods = SwapArr(p.periods, u, v)]

SwapEvent(e, u, v) ==
    IF e.name = "update:modelValue"
    THEN Event(e.name, SwapId(e.payload, u, v))
    ELSE IF e.name = "update:selectedPeriods"
    THEN Event(e.name, SwapArr(e.payload, u, v))
    ELSE IF e.payload.type = "single"
    THEN Event(e.name, [type |-> "single",
                        selectedPeriod |-> SwapId(e.payload.selectedPeriod, u, v),
                        previousPeriod |-> SwapId(e.payload.previousPeriod, u, v)])
    ELSE Event(e.name, [type |-> "multiple",
                        selectedPeriods |-> SwapArr(e.payload.selectedPeriods, u, v),
                        clickedPeriod |-> SwapId(e.payload.clickedPeriod, u, v)])

SwapEvents(events, u, v) == [k \in 1..Len(events) |-> SwapEvent(events[k], u, v)]

\* C11: the reducer does not reject an identifier outside the declared set:
\* an enabled click on such an identifier u emits exactly what a click on a
\* declared identifier v emits in the same state with u and v exchanged, and
\* the emitted values carry u itself.
C11_UnknownPassedThrough ==
    \A r \in Clicks :
        (~ r.before.disabled /\ r.period \notin ValidPeriods) =>
          /\ \A v \in Ids \cap ValidPeriods :
               r.events = SwapEvents(handlePeriodClick(SwapProps(r.before, r.period, v), v),
                                     r.period, v)
          /\ r.before.allowMultiple =>
               /\ Emits(r, "update:selectedPeriods")
               /\ Emits(r, "change")
               /\ Named(r.events, "change")[1].payload.clickedPeriod = r.period
          /\ (~ r.before.allowMultiple /\ r.period # r.before.modelValue) =>
               /\ Emits(r, "update:modelValue")
               /\ Named(r.events, "update:modelValue")[1].payload = r.period

C11_Witness ==
    /\ history # << >>
    /\ ~ LastClick.before.disabled
    /\ LastClick.period = UnknownPeriod
    /\ LastClick.events # << >>
    /\ LastClick.fed
    /\ \/ props.modelValue = UnknownPeriod
       \/ Includes(props.selectedPeriods, UnknownPeriod)

\* C12: handlePeriodClick leaves the modelValue prop and the selectedPeriods
\* prop array (elements and length) as they were; the selection changes only
\* when the caller binds the emitted value back, so as long as it has not,
\* another click on the same identifier emits the same payload again.
C12_PropsNotMutated ==
    (history # << >> /\ ~ LastClick.fed) =>
      /\ props.modelValue = LastClick.before.modelValue
      /\ Len(props.selectedPeriods) = Len(LastClick.before.selectedPeriods)
      /\ props.selectedPeriods = LastClick.before.selectedPeriods
      /\ handlePeriodClick(props, LastClick.period) = LastClick.events

C12_Witness ==
    /\ history # << >>
    /\ ~ LastClick.fed
    /\ Enabled1(LastClick, TRUE)
    /\ Includes(LastClick.before.selectedPeriods, LastClick.period)
    /\ Len(EmittedSelection(LastClick)) < Len(props.selectedPeriods)

\* the events of click n, in trace order
EventsOfClick(n) ==
    LET es == SelectSeq(trace, LAMBDA t : t.click = n)
    IN  [k \in 1..Len(es) |-> es[k].event]

\* C13: in the trace of emitted events the events of one click are
\* contiguous (events of two clicks never interleave) and are the events the
\* reducer computes from the props as they were when that click started.
C13_ClicksRunToCompletion ==
    /\ \A i, j, k \in 1..Len(trace) :
         (i < j /\ j < k /\ trace[i].click = trace[k].click) =>
            trace[j].click = trace[i].click
    /\ \A i, j \in 1..Len(trace) : i < j => trace[i].click <= trace[j].click
    /\ \A i \in 1..Len(trace) :
         EventsOfClick(trace[i].click)
            = handlePeriodClick(trace[i].before, trace[i].period)

C13_Witness ==
    /\ Len(trace) = 4
    /\ trace[1].click = 1
    /\ trace[4].click = 2
    /\ trace[3].before # trace[1].before

\* the props with another display variant and size
WithHints(p, v, z) == [p EXCEPT !.variant = v, !.size = z]

\* the identifiers isSelected reports as selected
SelectedIds(p) == {i \in Ids \cup ValidPeriods \cup {NoPeriod} : isSelected(p, i)}

\* C14: variant and size do not affect behaviour: under any other variant
\* and size the same click on the same selection emits the same events and
\* gives the same next selection, and the same identifiers are selected.
C14_HintsDoNotAffectBehaviour ==
    \A r \in Clicks : \A v \in Variants, z \in Sizes :
        LET q == WithHints(r.before, v, z)
        IN  /\ handlePeriodClick(q, r.period) = r.events
            /\ applyEvents(q, handlePeriodClick(q, r.period)).modelValue
                 = applyEvents(r.before, r.events).modelValue
            /\ applyEvents(q, handlePeriodClick(q, r.period)).selectedPeriods
                 = applyEvents(r.before, r.events).selectedPeriods
            /\ SelectedIds(q) = SelectedIds(r.before)
            /\ SelectedIds(WithHints(props, v, z)) = SelectedIds(props)

C14_Witness ==
    /\ history # << >>
    /\ LastClick.before.variant = "tabs"
    /\ LastClick.before.size = "large"
    /\ LastClick.before.allowMultiple
    /\ LastClick.events # << >>
    /\ LastClick.fed
    /\ Len(props.selectedPeriods) >= 2

\* the caller has bound back whatever the last click emitted
LastClickBound == history # << >> /\ (LastClick.fed \/ LastClick.events = << >>)

\* C15: in single mode, enabled, with the caller binding each emitted
\* update:modelValue back, after any click modelValue is the identifier of
\* the last click; in particular it is not 'none' any more.
C15_SingleFollowsLastClick ==
    (LastClickBound /\ Enabled1(LastClick, FALSE)) =>
      /\ props.modelValue = LastClick.period
      /\ props.modelValue # NoPeriod
      /\ SelectedIds(props) = {LastClick.period}

C15_Witness ==
    /\ LastClickBound
    /\ Enabled1(LastClick, FALSE)
    /\ LastClick.fed
    /\ LastClick.before.modelValue = NoPeriod
    /\ props.modelValue = LastClick.period

\* the props after a click on periodValue whose emitted values the caller
\* has bound back
ClickAndBind(p, periodValue) == applyEvents(p, handlePeriodClick(p, periodValue))

\* the selectedPeriods arrays some sequence of bound clicks on the rendered
\* buttons leads to
RECURSIVE SelectionsReachable(_, _, _)
SelectionsReachable(p, frontier, seen) ==
    LET next == {ClickAndBind([p EXCEPT !.selectedPeriods = a],
                              availablePeriods(p)[k].value).selectedPeriods :
                    a \in frontier, k \in 1..Len(p.periods)} \ seen
    IN  IF next = {} THEN seen ELSE SelectionsReachable(p, next, seen \cup next)

\* C16: in multiple mode, enabled, with the caller binding the emitted
\* selection back, from any selection within the rendered periods every
\* subset of the rendered periods, the empty one included, is reached by
\* some sequence of clicks.
C16_EverySubsetReachable ==
    (props.allowMultiple /\ ~ props.disabled
       /\ ToSet(props.selectedPeriods) \subseteq ToSet(props.periods)) =>
      LET reach == SelectionsReachable(props, {props.selectedPeriods},
                                       {props.selectedPeriods})
      IN  \A target \in SUBSET ToSet(props.periods) :
            \E a \in reach : ToSet(a) = target

C16_Witness ==
    /\ props.allowMultiple
    /\ ~ props.disabled
    /\ Len(props.periods) = 2
    /\ ToSet(props.selectedPeriods) = ToSet(props.periods)
    /\ history # << >>
    /\ LastClick.fed

\* a step in which the caller writes the selection props itself
CallerSetsProps ==
    \/ \E v \in ControlOptions : ControlModelValue(v)
    \/ \E a \in SeqsUpTo(Ids, 1) : ControlSelectedPeriods(a)

C18_RendersPeriods ==
    LET rendered == availablePeriods(props)
    IN  /\ Len(rendered) = Len(props.periods)
        /\ \A k \in 1..Len(rendered) : rendered[k].value = props.periods[k]
        /\ props.periods = DefaultPeriods =>
             /\ [k \in 1..Len(rendered) |-> rendered[k].value]
                  = <<"day", "week", "month", "quarter", "year">>
             /\ \A k \in 1..Len(rendered) : rendered[k].value # "custom"
        /\ \A k \in 1..Len(rendered) :
             props.periods[k] \notin ValidPeriods =>
                rendered[k] = [value |-> props.periods[k],
                               label |-> props.periods[k],
                               icon |-> "fas fa-clock"]

\* C19: the `type` prop of ActionButton overrides the button type: with
\* `primary` false the type passed to the Button is the `type` prop,
\* whatever the action.
C19_TypePropOverrides ==
    (actionButton.mounted /\ actionButton.rendered /\ ~ actionButton.props.primary) =>
        actionButton.button.type = actionButton.props.type

\* C20: Button's handleClick emits one click carrying the original event
\* when `disabled` is false and nothing when it is true; so under a disabled
\* PeriodButton, which passes `disabled` to every Button, no Button click
\* reaches handlePeriodClick.
C20_ButtonClickIffEnabled ==
    \A r \in Clicks :
        /\ ~ r.before.disabled =>
             /\ r.button = <<Event("click", r.domEvent)>>
             /\ r.reached
        /\ r.before.disabled =>
             /\ r.button = << >>
             /\ ~ r.reached
             /\ r.events = << >>

C20_Witness ==
    /\ history # << >>
    /\ LastClick.before.disabled
    /\ ~ LastClick.reached
    /\ LastClick.period # LastClick.before.modelValue

\* the ActionButton has handled a click
ActionHandled == actionButton.mounted /\ actionButton.event # Undefined

\* C21: while `loading` or `disabled` is true handleAction emits neither
\* `action` nor `click` and the Button is rendered disabled; otherwise one
\* click emits exactly one `action` carrying the `action` prop and the
\* original event, followed by exactly one `click` with that event.
C21_ActionSuppression ==
    LET ap == actionButton.props
        emitted == actionButton.emitted
    IN  /\ (actionButton.mounted /\ actionButton.rendered) =>
              (actionButton.button.disabled <=> (ap.loading \/ ap.disabled))
        /\ (ActionHandled /\ (ap.loading \/ ap.disabled)) => emitted = << >>
        /\ (ActionHandled /\ ~ ap.loading /\ ~ ap.disabled) =>
              /\ Len(emitted) = 2
              /\ emitted[1].name = "action"
              /\ emitted[1].payload.action = ap.action
              /\ emitted[1].payload.event = actionButton.event
              /\ emitted[2] = Event("click", actionButton.event)

C21_Witness ==
    /\ ActionHandled
    /\ actionButton.props.loading
    /\ ~ actionButton.props.disabled
    /\ actionButton.button.disabled
    /\ actionButton.emitted = << >>

\* C22: the button type ActionButton derives is 'primary' whenever `primary`
\* is true; otherwise the mapped type of `action`; and the `type` prop when
\* `action` has no entry in the map.
C22_ButtonTypeDerivation ==
    LET ap == actionButton.props
    IN  (actionButton.mounted /\ actionButton.rendered) =>
            actionButton.button.type =
                IF ap.primary
                THEN "primary"
                ELSE IF ap.action \in ActionTypes
                     THEN actionTypeMap[ap.action]
                     ELSE ap.type

\* the same for the actions that are no name inherited from Object.prototype
C22_HoldsForOwnNames ==
    LET ap == actionButton.props
    IN  (actionButton.mounted /\ actionButton.rendered /\ ap.action \notin ObjectPrototypeKeys) =>
            actionButton.button.type =
                IF ap.primary
                THEN "primary"
                ELSE IF ap.action \in ActionTypes
                     THEN actionTypeMap[ap.action]
                     ELSE ap.type

\* the strategy the Button is to use for its props
ExpectedStrategy(bp) ==
    IF bp.primary
    THEN "PrimaryButtonStrategy"
    ELSE IF bp.type \in ButtonTypes
         THEN strategyMap[bp.type]
         ELSE "SecondaryButtonStrategy"

TypeClasses(classes) == {c \in classes : Len(c) = 2 /\ c[2] \in ButtonTypes}

\* C23: the Button's strategy is Primary whenever `primary` is true,
\* otherwise the strategy of `type`, and Secondary for any `type` outside
\* the five declared ones (the empty one included); a strategy is always
\* produced and exactly one storybook-button--<type> class is set.
C23_VariantResolution ==
    (baseButton.mounted /\ baseButton.rendered) =>
        /\ baseButton.strategy = ExpectedStrategy(baseButton.props)
        /\ baseButton.error = ""
        /\ Cardinality(TypeClasses(baseButton.classes)) = 1

\* the same for the types that are no name inherited from Object.prototype
C23_HoldsForOwnNames ==
    (baseButton.mounted /\ baseButton.rendered
       /\ (baseButton.props.primary \/ baseButton.props.type \notin ObjectPrototypeKeys)) =>
        /\ baseButton.strategy = ExpectedStrategy(baseButton.props)
        /\ baseButton.error = ""
        /\ TypeClasses(baseButton.classes) =
             {<<"storybook-button--", strategyType(baseButton.strategy)>>}

\* the colours the scheme of a type holds for a state
SchemeText(type, disabled) ==
    IF disabled THEN colorSchemes[type].disabledText ELSE colorSchemes[type].text

SchemeBorder(type, disabled) ==
    IF disabled THEN colorSchemes[type].disabledBorder ELSE colorSchemes[type].border

SchemeBackground(type, disabled) ==
    IF disabled THEN colorSchemes[type].disabledBackground ELSE colorSchemes[type].background

\* the type whose scheme is to be used
SchemeOf(type) == IF type \in ButtonTypes THEN type ELSE "secondary"

VariantClasses == {"period-button--buttons", "period-button--tabs", "period-button--pills"}

\* the variant class a variant is to get
VariantClassOf(variant) ==
    CASE variant = "tabs" -> "period-button--tabs"
      [] variant = "pills" -> "period-button--pills"
      [] OTHER -> "period-button--buttons"

\* the rendered period is the selected one, or one of the selected ones
SelectedInMode(p, periodValue) ==
    \/ ~ p.allowMultiple /\ periodValue = p.modelValue
    \/ p.allowMultiple /\ periodValue \in ToSet(p.selectedPeriods)

\* C25: for every rendered period, in every mode and variant, the Button
\* type is 'primary' and the class period-button--selected is set if and
\* only if the period is selected (the modelValue in single mode, a member of
\* selectedPeriods in multiple mode); exactly one of the variant classes is
\* set, --buttons for an unknown variant.
C25_RenderingMatchesSelection ==
    \A k \in 1..Len(props.periods) :
        LET periodValue == availablePeriods(props)[k].value
            classes == getButtonClasses(props, periodValue)
            type == getButtonType(props, periodValue)
        IN  /\ type = "primary" <=> SelectedInMode(props, periodValue)
            /\ type \in {"primary", "secondary"}
            /\ "period-button--selected" \in classes <=> SelectedInMode(props, periodValue)
            /\ classes \cap VariantClasses = {VariantClassOf(props.variant)}
            /\ props.variant \notin Variants =>
                 classes \cap VariantClasses = {"period-button--buttons"}

C25_Witness ==
    /\ history # << >>
    /\ LastClick.fed
    /\ props.allowMultiple
    /\ props.variant = UnknownVariant
    /\ props.modelValue \in ToSet(props.periods)
    /\ Len(props.periods) > 1
    /\ \E k \in 1..Len(props.periods) :
          /\ props.periods[k] \in ToSet(props.selectedPeriods)
          /\ getButtonType(props, props.periods[k]) = "primary"
    /\ \E k \in 1..Len(props.periods) :
          /\ props.periods[k] \notin ToSet(props.selectedPeriods)
          /\ getButtonType(props, props.periods[k]) = "secondary"

(* ---------------------------------------------------------------------- *)
(* Reading the trace of a sequence of clicks                               *)
(* ---------------------------------------------------------------------- *)

\* the number of clicks in the trace
TraceClicks == IF trace = << >> THEN 0 ELSE trace[Len(trace)].click

\* the first trace entry of click n
EntryOfClick(n) == trace[CHOOSE i \in 1..Len(trace) : trace[i].click = n]

\* the caller bound every click of the trace but possibly the last: each
\* click started from the props the click before it left after binding
BoundSequence ==
    \A n \in 2..TraceClicks :
        EntryOfClick(n).before
          = applyEvents(EntryOfClick(n - 1).before, EventsOfClick(n - 1))

\* the props the sequence started from
FirstProps == EntryOfClick(1).before

\* the selectedPeriods array the last click of the trace emitted
LastEmittedSelection ==
    Named(EventsOfClick(TraceClicks), "update:selectedPeriods")[1].payload

NoDuplicates(arr) == \A j, k \in 1..Len(arr) : arr[j] = arr[k] => j = k

\* the identifiers clicked an odd number of times
OddClicked ==
    {i \in Ids : Cardinality({n \in 1..TraceClicks : EntryOfClick(n).period = i}) % 2 = 1}

SymDiff(A, B) == (A \ B) \cup (B \ A)

\* a bound sequence of at least one click in multiple mode
MultipleSequence ==
    /\ TraceClicks >= 1
    /\ FirstProps.allowMultiple
    /\ ~ FirstProps.disabled
    /\ NoDuplicates(FirstProps.selectedPeriods)
    /\ BoundSequence

\* C26: in multiple mode, enabled and with caller feedback, from a
\* duplicate-free selection S0 the selected set after any sequence of clicks
\* is the symmetric difference of S0 and the identifiers clicked an odd
\* number of times, whatever the order of the clicks.
C26_Parity ==
    MultipleSequence =>
        /\ ToSet(LastEmittedSelection)
             = SymDiff(ToSet(FirstProps.selectedPeriods), OddClicked)
        /\ (history # << >> /\ LastClick.fed) =>
             ToSet(props.selectedPeriods)
               = SymDiff(ToSet(FirstProps.selectedPeriods), OddClicked)

C26_Witness ==
    /\ MultipleSequence
    /\ TraceClicks = MaxClicks
    /\ history # << >> /\ LastClick.fed
    /\ FirstProps.selectedPeriods # << >>
    /\ EntryOfClick(1).period # EntryOfClick(2).period
    /\ EntryOfClick(1).period \in ToSet(FirstProps.selectedPeriods)
    /\ EntryOfClick(2).period \notin ToSet(FirstProps.selectedPeriods)

\* C27: in multiple mode with caller feedback, from a selectedPeriods array
\* that holds no identifier twice, every selectedPeriods array emitted over a
\* sequence of clicks holds no identifier twice.
C27_NoDuplicatesPreserved ==
    MultipleSequence =>
        /\ NoDuplicates(LastEmittedSelection)
        /\ Len(LastEmittedSelection) = Cardinality(ToSet(LastEmittedSelection))
        /\ (history # << >> /\ LastClick.fed) => NoDuplicates(props.selectedPeriods)

C27_Witness ==
    /\ MultipleSequence
    /\ TraceClicks = MaxClicks
    /\ Len(FirstProps.selectedPeriods) >= 1
    /\ Len(LastEmittedSelection) >= 2
    /\ EntryOfClick(1).period \in ToSet(FirstProps.selectedPeriods)
    /\ EntryOfClick(2).period = EntryOfClick(1).period

UpdateNames == {"update:modelValue", "update:selectedPeriods"}

\* C28: whenever a click emits, the update of the current value
\* (update:modelValue or update:selectedPeriods) is emitted strictly before
\* the change descriptor, and in single mode the descriptor's previousPeriod
\* is the value held before that update.
C28_UpdateBeforeChange ==
    /\ \A i \in 1..Len(trace) :
         trace[i].event.name = "change" =>
            /\ \E j \in 1..(i - 1) :
                 /\ trace[j].click = trace[i].click
                 /\ trace[j].event.name \in UpdateNames
            /\ \A j \in i..Len(trace) :
                 trace[j].click = trace[i].click => trace[j].event.name \notin UpdateNames
            /\ trace[i].event.payload.type = "single" =>
                 /\ trace[i].event.payload.previousPeriod = trace[i].before.modelValue
                 /\ trace[i].event.payload.previousPeriod # trace[i].event.payload.selectedPeriod
    /\ \A i \in 1..Len(trace) :
         trace[i].event.name \in UpdateNames =>
            \E j \in (i + 1)..Len(trace) :
                /\ trace[j].click = trace[i].click
                /\ trace[j].event.name = "change"
    /\ \A r \in Clicks :
         r.events # << >> =>
            /\ Len(r.events) = 2
            /\ r.events[1].name \in UpdateNames
            /\ r.events[2].name = "change"

C28_Witness ==
    /\ Len(trace) = 4
    /\ ~ trace[1].before.allowMultiple
    /\ trace[1].event.name = "update:modelValue"
    /\ trace[2].event.name = "change"
    /\ trace[2].event.payload.previousPeriod = "month"
    /\ trace[3].click = 2
    /\ trace[4].event.name = "change"
    /\ trace[4].event.payload.previousPeriod = trace[1].event.payload

\* C29: the selection stays within the rendered periods. With caller
\* feedback, (a) in single mode the modelValue after an effective click is an
\* element of `periods`; (b) in multiple mode a selection that is a subset of
\* `periods` is a subset after the click, and a selected identifier that is
\* not in `periods` is still selected after any click.
C29_SelectionWithinPeriods ==
    (history # << >> /\ LastClick.fed) =>
        LET r == LastClick
            periods == ToSet(r.before.periods)
        IN  /\ Enabled1(r, FALSE) => props.modelValue \in periods
            /\ (Enabled1(r, TRUE) /\ ToSet(r.before.selectedPeriods) \subseteq periods) =>
                  ToSet(props.selectedPeriods) \subseteq periods
            /\ Enabled1(r, TRUE) =>
                  \A i \in ToSet(r.before.selectedPeriods) \ periods :
                      i \in ToSet(props.selectedPeriods)

\* the emitted array with one identifier left out
Without(arr, x) == SelectSeq(arr, LAMBDA y : y # x)

\* C30: in multiple mode a click that adds an identifier appends it at the
\* end of the emitted array and a click that removes one deletes only that
\* entry; the relative order of the other identifiers is unchanged, so
\* toggling an identifier off and on again moves it to the end and leaves
\* the set equal.
C30_MultipleOrdering ==
    /\ \A r \in Clicks :
         Enabled1(r, TRUE) =>
            LET old == r.before.selectedPeriods
                new == EmittedSelection(r)
            IN  /\ ~ Includes(old, r.period) => new = old \o <<r.period>>
                /\ Includes(old, r.period) =>
                     /\ Len(new) = Len(old) - 1
                     /\ \E k \in 1..Len(old) :
                          /\ old[k] = r.period
                          /\ new = SubSeq(old, 1, k - 1) \o SubSeq(old, k + 1, Len(old))
                /\ Without(new, r.period) = Without(old, r.period)
    /\ (MultipleSequence /\ TraceClicks >= 2
          /\ EntryOfClick(TraceClicks).period = EntryOfClick(TraceClicks - 1).period
          /\ Includes(EntryOfClick(TraceClicks - 1).before.selectedPeriods,
                      EntryOfClick(TraceClicks).period)
          /\ ~ Includes(EntryOfClick(TraceClicks).before.selectedPeriods,
                        EntryOfClick(TraceClicks).period)) =>
         LET start == EntryOfClick(TraceClicks - 1).before.selectedPeriods
             i == EntryOfClick(TraceClicks).period
         IN  /\ LastEmittedSelection = Without(start, i) \o <<i>>
             /\ ToSet(LastEmittedSelection) = ToSet(start)

C30_Witness ==
    /\ MultipleSequence
    /\ TraceClicks = 2
    /\ EntryOfClick(2).period = EntryOfClick(1).period
    /\ Len(FirstProps.selectedPeriods) = 2
    /\ FirstProps.selectedPeriods[1] = EntryOfClick(1).period
    /\ LastEmittedSelection[2] = EntryOfClick(1).period
    /\ LastEmittedSelection # FirstProps.selectedPeriods

====
